---- MODULE Spec2Model ----
(***************************************************************************)
(* A model of pdf_tchotchke's redaction editor (redaction/editor.py and    *)
(* the pattern, parser, iobjects and xrefs modules it rests on).           *)
(*                                                                         *)
(* A bytes object is a sequence of one-character strings.  Offsets are the *)
(* 0-based offsets Python uses: Slice(t, a, b) is t[a:b].  The regular     *)
(* expressions of patterns.py are written out as matchers over such        *)
(* sequences, with the greedy / lazy choices Python's re module makes.     *)
(***************************************************************************)
EXTENDS Integers, Sequences, FiniteSets, TLC

\* ------------------------------------------------------------------ bounds
MaxObjs == 3        \* indirect objects in an input document
MaxTargets == 2     \* objects handed to one del_objs call
MaxPad == 1         \* bytes in front of the %PDF marker
MaxSteps == 2       \* editor calls in one run

\* ------------------------------------------------------------------- bytes
DigitSeq == <<"0", "1", "2", "3", "4", "5", "6", "7", "8", "9">>
DigitSet == {DigitSeq[i] : i \in 1..10}
NL == "\n"
NLSet == {NL}
\* C['ws'] of patterns.py without NUL, TAB, FF and CR, which no document of
\* the model contains
WsSet == {NL, " "}

DigitVal(c) == (CHOOSE i \in 1..10 : DigitSeq[i] = c) - 1

Max2(a, b) == IF a >= b THEN a ELSE b

Slice(t, a, b) == SubSeq(t, a + 1, b)
At(t, p) == t[p + 1]

\* the literal w occurs in t at offset p
Lit(t, p, w) == p >= 0 /\ p + Len(w) <= Len(t) /\ SubSeq(t, p + 1, p + Len(w)) = w

\* F applied to the value v, which is computed once
With(v, F(_)) == F(v)

\* the least q in lo..hi with Q(q), -1 when there is none
First(lo, hi, Q(_)) ==
  IF \E q \in lo..hi : Q(q)
  THEN CHOOSE q \in lo..hi : Q(q) /\ \A r \in lo..(q - 1) : ~Q(r)
  ELSE -1

\* the greatest q in lo..hi with Q(q), -1 when there is none
Last(lo, hi, Q(_)) ==
  IF \E q \in lo..hi : Q(q)
  THEN CHOOSE q \in lo..hi : Q(q) /\ \A r \in (q + 1)..hi : ~Q(r)
  ELSE -1

\* end of the greedy run of bytes of S that starts at p
RunEnd(t, p, S) ==
  IF p >= Len(t) THEN p
  ELSE First(p, Len(t), LAMBDA q : q = Len(t) \/ At(t, q) \notin S)

\* start of the run of bytes of S that ends at p
RunStart(t, p, S) ==
  IF p <= 0 THEN p
  ELSE Last(0, p, LAMBDA q : q = 0 \/ At(t, q - 1) \notin S)

\* first offset >= p at which w occurs, -1 when there is none
Find(t, p, w) == First(p, Len(t) - Len(w), LAMBDA q : Lit(t, q, w))

\* last offset <= p at which w occurs, -1 when there is none
FindLast(t, p, w) == Last(0, p, LAMBDA q : Lit(t, q, w))

\* int(b) for a bytes object of decimal digits
RECURSIVE IntOf(_)
IntOf(b) ==
  IF Len(b) = 0 THEN 0
  ELSE 10 * IntOf(SubSeq(b, 1, Len(b) - 1)) + DigitVal(b[Len(b)])

\* bytes(str(n), 'utf-8')
RECURSIVE StrOf(_)
StrOf(n) ==
  IF n < 0 THEN <<"-">> \o StrOf(0 - n)
  ELSE IF n < 10 THEN <<DigitSeq[n + 1]>>
  ELSE StrOf(n \div 10) \o <<DigitSeq[(n % 10) + 1]>>

\* b'0' * k (empty for k <= 0, as in Python)
RECURSIVE Zeros(_)
Zeros(k) == IF k <= 0 THEN <<>> ELSE <<"0">> \o Zeros(k - 1)

\* a < b on bytes objects: lexicographic, a proper prefix is smaller
RECURSIVE BytesLess(_, _)
BytesLess(a, b) ==
  IF Len(b) = 0 THEN FALSE
  ELSE IF Len(a) = 0 THEN TRUE
  ELSE IF a[1] = b[1] THEN BytesLess(Tail(a), Tail(b))
  ELSE DigitVal(a[1]) < DigitVal(b[1])

\* ---------------------------------------------------------------- keywords
kw_obj == <<" ", "o", "b", "j">>
kw_endobj == <<"e", "n", "d", "o", "b", "j">>
kw_R == <<" ", "R">>
kw_xref == <<"x", "r", "e", "f">>
kw_startxref == <<"s", "t", "a", "r", "t", "x", "r", "e", "f">>
kw_trailer == <<"t", "r", "a", "i", "l", "e", "r">>
kw_EOF == <<"%", "%", "E", "O", "F">>
kw_PDF == <<"%", "P", "D", "F">>
kw_Size == <<"/", "S", "i", "z", "e", " ">>
kw_dopen == <<"<", "<">>
kw_dclose == <<">", ">">>

\* ------------------------------------------------- patterns.py: P['iobj']
NoMatch == [ok |-> FALSE]

\* \d+ \d+ obj at p: the offset just past "obj", -1 when it does not match
OpenerEnd(t, p) ==
  With(RunEnd(t, p, DigitSet), LAMBDA a :
  With(RunEnd(t, a + 1, DigitSet), LAMBDA b :
    IF a > p /\ Lit(t, a, <<" ">>) /\ b > a + 1 /\ Lit(t, b, kw_obj)
    THEN b + 4 ELSE -1))

\* first offset >= p of endobj\n+, -1 when there is none
FindEndobj(t, p) == Find(t, p, kw_endobj \o <<NL>>)

\* (\d+) (\d+) obj\n*(.+?)\n*endobj\n+ with re.DOTALL, tried at offset p.
\* \n* is greedy and gives one newline back only when nothing else matches;
\* (.+?) is lazy, so the match ends at the first endobj\n+ that leaves the
\* contents one byte at least.
IobjMatchAt(t, p) ==
  With(OpenerEnd(t, p), LAMBDA q :
  IF q = -1 THEN NoMatch ELSE
  With(RunEnd(t, p, DigitSet), LAMBDA a :
  With(RunEnd(t, q, NLSet), LAMBDA n1 :
  With(FindEndobj(t, n1 + 1), LAMBDA j1 :
  With(j1 = -1 /\ n1 > q /\ Lit(t, n1, kw_endobj) /\ Lit(t, n1 + 6, <<NL>>), LAMBDA back :
  With(IF back THEN n1 - 1 ELSE n1, LAMBDA cs :
  With(IF back THEN n1 ELSE j1, LAMBDA j :
    IF j1 = -1 /\ ~back THEN NoMatch
    ELSE [ok |-> TRUE, start |-> p, end |-> RunEnd(t, j + 6, NLSet),
          num |-> Slice(t, p, a), gen |-> Slice(t, a + 1, q - 4),
          cs |-> cs, ce |-> Max2(cs + 1, RunStart(t, j, NLSet))])))))))

\* pattern.finditer(text) for P['iobj']: leftmost, non-overlapping
RECURSIVE IobjFinditer(_, _)
IobjFinditer(t, p) ==
  With(First(p, Len(t) - 1, LAMBDA q : At(t, q) \in DigitSet /\ IobjMatchAt(t, q).ok), LAMBDA s :
    IF s = -1 THEN <<>>
    ELSE With(IobjMatchAt(t, s), LAMBDA m : <<m>> \o IobjFinditer(t, m.end)))

\* ----------------------------------------------- patterns.py: P['pdf_hf']
\* some endobj\n+ at or after minj is followed at once by xref.+ that ends
\* before the %%EOF at e
HfTail(t, minj, e) ==
  \E x \in minj..(e - 5) :
    /\ Lit(t, x, kw_xref)
    /\ \E s \in {RunStart(t, x, NLSet)} :
         s < x /\ s - 6 >= minj /\ Lit(t, s - 6, kw_endobj)

\* the lazy (.+?) of P['pdf_hf']: the end of the shortest header of one byte
\* or more, -1 when the pattern does not match
HfHeaderEnd(t, e) ==
  First(1, Len(t) - 1,
        LAMBDA h : At(t, h) \in DigitSet /\ OpenerEnd(t, h) # -1
                   /\ HfTail(t, OpenerEnd(t, h) + 1, e))

\* ^(.+?)(?:\d+ \d+ obj.+endobj\n+)+(?:xref.+)(%%EOF\n*)$ with re.DOTALL
HfMatch(t) ==
  With(RunStart(t, Len(t), NLSet) - 5, LAMBDA e :
  With(HfHeaderEnd(t, e), LAMBDA h :
    IF Lit(t, e, kw_EOF) /\ h # -1
    THEN [ok |-> TRUE, header |-> Slice(t, 0, h), eof |-> Slice(t, e, Len(t))]
    ELSE NoMatch))

\* ------------------------------------------------ patterns.py: P['xrefs']
\* (xref.+?)+(startxref.+) with re.DOTALL: the match runs from the first
\* "xref" to the end of the text, so finditer yields one match at most;
\* the result is its start, -1 when there is no match
XrefsStart(t) ==
  With(Find(t, 0, kw_xref), LAMBDA x :
    IF x # -1 /\ FindLast(t, Len(t) - 10, kw_startxref) >= x + 5 THEN x ELSE -1)

\* --------------------------------- patterns.py: P['xitem'], P['xblock'], P['xref']
\* \d{10} \d{5} [nf] \n at p
XitemAt(u, p) ==
  /\ p + 20 <= Len(u)
  /\ \A i \in 0..9 : At(u, p + i) \in DigitSet
  /\ At(u, p + 10) = " "
  /\ \A i \in 11..15 : At(u, p + i) \in DigitSet
  /\ At(u, p + 16) = " "
  /\ At(u, p + 17) \in {"n", "f"}
  /\ At(u, p + 18) = " "
  /\ At(u, p + 19) = NL

\* end of the greedy run (?:\d{10} \d{5} [nf] \n)* that starts at p
RECURSIVE ItemsEnd(_, _)
ItemsEnd(u, p) == IF XitemAt(u, p) THEN ItemsEnd(u, p + 20) ELSE p

\* the entries of a run of items: P['xitem'].finditer(group(3))
RECURSIVE Xitems(_, _, _)
Xitems(u, p, e) ==
  IF p >= e THEN <<>>
  ELSE <<[offset |-> IntOf(Slice(u, p, p + 10)),
          gen |-> IntOf(Slice(u, p + 11, p + 16)),
          state |-> At(u, p + 17)]>> \o Xitems(u, p + 20, e)

\* (\d+) (\d+)[ws]*((?:\d{10} \d{5} [nf] \n)+) tried at offset p.  The second
\* (\d+) is greedy; when no item follows the white space it can only give
\* back the ten digits of an item that starts inside its own digit run.
XblockAt(u, p) ==
  With(RunEnd(u, p, DigitSet), LAMBDA a :
  With(RunEnd(u, a + 1, DigitSet), LAMBDA b :
  IF ~(a > p /\ Lit(u, a, <<" ">>) /\ b > a + 1) THEN NoMatch ELSE
  With(RunEnd(u, b, WsSet), LAMBDA w :
  With(ItemsEnd(u, w), LAMBDA e1 :
  With(b - 10, LAMBDA c :
  With(IF c >= a + 2 THEN ItemsEnd(u, c) ELSE c, LAMBDA e2 :
    IF e1 > w
      THEN [ok |-> TRUE, start |-> p, end |-> e1,
            first |-> IntOf(Slice(u, p, a)), items |-> Xitems(u, w, e1)]
    ELSE IF c >= a + 2 /\ e2 > c
      THEN [ok |-> TRUE, start |-> p, end |-> e2,
            first |-> IntOf(Slice(u, p, a)), items |-> Xitems(u, c, e2)]
    ELSE NoMatch))))))

\* pdf_xref.blocks: finditer(P['xblock']) over the text of one xref section
RECURSIVE XblockFinditer(_, _)
XblockFinditer(u, p) ==
  With(First(p, Len(u) - 1, LAMBDA q : At(u, q) \in DigitSet /\ XblockAt(u, q).ok), LAMBDA s :
    IF s = -1 THEN <<>>
    ELSE With(XblockAt(u, s), LAMBDA m : <<m>> \o XblockFinditer(u, m.end)))

\* (?:\d+ \d+ \n(?:\d{10} \d{5} [nf] \n)+)+ at p: its end, -1 when no block
\* matches; n counts the blocks matched so far
RECURSIVE XrefBlocksEnd(_, _, _)
XrefBlocksEnd(u, p, n) ==
  With(RunEnd(u, p, DigitSet), LAMBDA a :
  With(RunEnd(u, a + 1, DigitSet), LAMBDA b :
  With(ItemsEnd(u, b + 2), LAMBDA e :
    IF a > p /\ Lit(u, a, <<" ">>) /\ b > a + 1 /\ Lit(u, b, <<" ", NL>>) /\ e > b + 2
    THEN XrefBlocksEnd(u, e, n + 1)
    ELSE IF n > 0 THEN p ELSE -1)))

\* xref\n((?:block)+\n*)(trailer\n+<<.+>>\n+) with re.DOTALL tried at p; the
\* greedy .+ runs to the last >>\n of the text
XrefMatchAt(u, p) ==
  IF ~Lit(u, p, kw_xref \o <<NL>>) THEN NoMatch ELSE
  With(XrefBlocksEnd(u, p + 5, 0), LAMBDA be :
  IF be = -1 THEN NoMatch ELSE
  With(RunEnd(u, be, NLSet), LAMBDA n :
  With(RunEnd(u, n + 7, NLSet), LAMBDA m :
  With(FindLast(u, Len(u) - 3, kw_dclose \o <<NL>>), LAMBDA g :
    IF Lit(u, n, kw_trailer) /\ m > n + 7 /\ Lit(u, m, kw_dopen) /\ g >= m + 3
    THEN [ok |-> TRUE, start |-> p, end |-> RunEnd(u, g + 2, NLSet)]
    ELSE NoMatch))))

\* pdf_match(self.match, origin).finditer(P['xref']): the xref sections found
\* in the text u of the P['xrefs'] match
RECURSIVE XrefFinditer(_, _)
XrefFinditer(u, p) ==
  With(First(p, Len(u) - 1, LAMBDA q : At(u, q) = "x" /\ XrefMatchAt(u, q).ok), LAMBDA s :
    IF s = -1 THEN <<>>
    ELSE With(XrefMatchAt(u, s), LAMBDA m : <<m>> \o XrefFinditer(u, m.end)))

\* ------------------------------------------------- parser.py: pdf_match.find
DelimOpen(option) == IF option = "dicts" THEN kw_dopen ELSE <<"[">>
DelimClose(option) == IF option = "dicts" THEN kw_dclose ELSE <<"]">>

\* ms + me sorted by start position: the start and end delimiter tokens of v
RECURSIVE Delims(_, _, _)
Delims(v, p, option) ==
  With(First(p, Len(v) - 1,
             LAMBDA q : Lit(v, q, DelimOpen(option)) \/ Lit(v, q, DelimClose(option))),
       LAMBDA s :
    IF s = -1 THEN <<>>
    ELSE <<[pos |-> s, open |-> Lit(v, s, DelimOpen(option))]>>
         \o Delims(v, s + Len(DelimOpen(option)), option))

NOpen(ds) == Cardinality({i \in 1..Len(ds) : ds[i].open})

\* the scan loop of find over the delimiters ds from index i on
RECURSIVE FindLoop(_, _, _, _, _, _)
FindLoop(ds, i, depth, sbuffer, d_spans, w) ==
  IF i > Len(ds) THEN [err |-> "none", d_spans |-> d_spans]
  ELSE IF ds[i].open
    THEN FindLoop(ds, i + 1, depth + 1, Append(sbuffer, ds[i].pos), d_spans, w)
  ELSE IF Len(sbuffer) = 0 THEN [err |-> "IndexError", d_spans |-> d_spans]
  ELSE IF depth - 1 = 0
    THEN FindLoop(ds, i + 1, depth - 1, SubSeq(sbuffer, 1, Len(sbuffer) - 1),
                  Append(d_spans, <<sbuffer[Len(sbuffer)], ds[i].pos + w>>), w)
  ELSE FindLoop(ds, i + 1, depth - 1, SubSeq(sbuffer, 1, Len(sbuffer) - 1),
                d_spans, w)

SpanLess(x, y) == x[1] < y[1] \/ (x[1] = y[1] /\ x[2] < y[2])

\* sorted(d_spans)
RECURSIVE SortSpans(_)
SortSpans(xs) ==
  IF Len(xs) <= 1 THEN xs
  ELSE With(CHOOSE k \in 1..Len(xs) : \A l \in 1..Len(xs) : ~SpanLess(xs[l], xs[k]),
            LAMBDA i : <<xs[i]>> \o SortSpans(SubSeq(xs, 1, i - 1) \o SubSeq(xs, i + 1, Len(xs))))

\* find without the comparison of the two delimiter counts
FindSpansUnchecked(v, option) ==
  With(Delims(v, 0, option), LAMBDA ds :
  With(FindLoop(ds, 1, 0, <<>>, <<>>, Len(DelimClose(option))), LAMBDA r :
    IF r.err # "none" THEN r
    ELSE [err |-> "none", d_spans |-> SortSpans(r.d_spans)]))

\* the sorted depth-0 spans find(option) computes for the text v
FindSpans(v, option) ==
  With(Delims(v, 0, option), LAMBDA ds :
  IF 2 * NOpen(ds) # Len(ds) THEN [err |-> "AssertionError", d_spans |-> <<>>] ELSE
  With(FindLoop(ds, 1, 0, <<>>, <<>>, Len(DelimClose(option))), LAMBDA r :
    IF r.err # "none" THEN r
    ELSE [err |-> "none", d_spans |-> SortSpans(r.d_spans)]))

\* ------------------------------------------------ editor.py: the editor
\* get_iobjs: every indirect object of the text, in file order
GetIobjs(t) == IobjFinditer(t, 0)

\* the xref sections pdf_xrefs holds: P['xref'] over the P['xrefs'] match,
\* each with the text it spans
XrefSections(t) ==
  With(XrefsStart(t), LAMBDA x :
  IF x = -1 THEN <<>> ELSE
  With(Slice(t, x, Len(t)), LAMBDA u :
  With(XrefFinditer(u, 0), LAMBDA ms :
    [i \in 1..Len(ms) |-> Slice(u, ms[i].start, ms[i].end)])))

\* (block.start() + i, item.offset()) for the items of one block
BlockPairs(b) == [i \in 1..Len(b.items) |-> <<b.first + (i - 1), b.items[i].offset>>]

RECURSIVE BlocksPairs(_)
BlocksPairs(bs) ==
  IF Len(bs) = 0 THEN <<>> ELSE BlockPairs(bs[1]) \o BlocksPairs(Tail(bs))

\* x_offsets of check_xref
RECURSIVE SectionsPairs(_)
SectionsPairs(secs) ==
  IF Len(secs) = 0 THEN <<>>
  ELSE BlocksPairs(XblockFinditer(secs[1], 0)) \o SectionsPairs(Tail(secs))

XOffsets(t) == SectionsPairs(XrefSections(t))

\* o_offsets of check_xref: the header marker, then every indirect object with
\* l = len(header) added to the start of its match in the text
OOffsets(t, header) ==
  With(GetIobjs(t), LAMBDA iobjs :
  With(Len(header), LAMBDA l :
    <<(<<0, Find(header, 0, kw_PDF)>>)>>
    \o [i \in 1..Len(iobjs) |-> <<IntOf(iobjs[i].num), iobjs[i].start + l>>]))

\* the exception get_parts raises on the text, "none" when it returns
GetPartsErr(t, m) ==
  IF ~m.ok THEN "AttributeError"
  ELSE IF XrefsStart(t) = -1 THEN "AssertionError"
  ELSE "none"

\* check_xref comparing the pairs of the two lists without their order
CheckXrefUnordered(t) ==
  With(HfMatch(t), LAMBDA m :
  With(GetPartsErr(t, m), LAMBDA e :
    IF e # "none" THEN [err |-> e, ret |-> "None"]
    ELSE IF Find(m.header, 0, kw_PDF) = -1 THEN [err |-> "AttributeError", ret |-> "None"]
    ELSE [err |-> "none",
          ret |-> IF {XOffsets(t)[i] : i \in 1..Len(XOffsets(t))}
                       = {OOffsets(t, m.header)[i] : i \in 1..Len(OOffsets(t, m.header))}
                  THEN "True" ELSE "False"]))

\* check_xref: [err, ret]
CheckXref(t) ==
  With(HfMatch(t), LAMBDA m :
  With(GetPartsErr(t, m), LAMBDA e :
    IF e # "none" THEN [err |-> e, ret |-> "None"]
    ELSE IF Find(m.header, 0, kw_PDF) = -1 THEN [err |-> "AttributeError", ret |-> "None"]
    ELSE [err |-> "none",
          ret |-> IF XOffsets(t) = OOffsets(t, m.header) THEN "True" ELSE "False"]))

\* pdf_xrefs.trailer: the trailer dictionary of the last xref section
Trailer(t) ==
  With(XrefSections(t), LAMBDA secs :
  IF Len(secs) = 0 THEN [err |-> "IndexError", text |-> <<>>] ELSE
  With(secs[Len(secs)], LAMBDA v :
  With(FindSpans(v, "dicts"), LAMBDA f :
    IF f.err # "none" THEN [err |-> f.err, text |-> <<>>]
    ELSE IF Len(f.d_spans) = 0 THEN [err |-> "StopIteration", text |-> <<>>]
    ELSE [err |-> "none", text |-> Slice(v, f.d_spans[1][1], f.d_spans[1][2])])))

\* re.sub(rb'/Size \d+', rb'/Size ' + n, tr), from offset p on
RECURSIVE SubSize(_, _, _)
SubSize(tr, p, n) ==
  With(First(p, Len(tr) - 1,
             LAMBDA q : Lit(tr, q, kw_Size) /\ RunEnd(tr, q + 6, DigitSet) > q + 6),
       LAMBDA s :
    IF s = -1 THEN Slice(tr, p, Len(tr))
    ELSE Slice(tr, p, s) \o kw_Size \o n \o SubSize(tr, RunEnd(tr, s + 6, DigitSet), n))

\* the xitem make_xref writes for the header: b'0' * (10 - h_offset), then
\* str(h_offset)
HeaderXitem(h_offset) ==
  Zeros(10 - h_offset) \o StrOf(h_offset) \o <<" ", "6", "5", "5", "3", "5", " ", "f", " ", NL>>

\* an xitem that marks the object free
IobjXitemFree(start) ==
  With(StrOf(start), LAMBDA offset :
    Zeros(10 - Len(offset)) \o offset \o <<" ", "0", "0", "0", "0", "0", " ", "f", " ", NL>>)

\* the xitem make_xref writes for an indirect object that starts at start
IobjXitem(start) ==
  With(StrOf(start), LAMBDA offset :
    Zeros(10 - Len(offset)) \o offset \o <<" ", "0", "0", "0", "0", "0", " ", "n", " ", NL>>)

RECURSIVE IobjXitems(_)
IobjXitems(iobjs) ==
  IF Len(iobjs) = 0 THEN <<>>
  ELSE IobjXitem(iobjs[1].start) \o IobjXitems(Tail(iobjs))

\* preamble += iobj.text for every indirect object
RECURSIVE IobjTexts(_, _)
IobjTexts(t, iobjs) ==
  IF Len(iobjs) = 0 THEN <<>>
  ELSE Slice(t, iobjs[1].start, iobjs[1].end) \o IobjTexts(t, Tail(iobjs))

\* make_xref(repair=True): [err, text]
NewXref(t, h_offset, iobjs, n_entries, trailer) ==
  kw_xref \o <<NL, "0", " ">> \o n_entries \o <<NL>>
  \o HeaderXitem(h_offset) \o IobjXitems(iobjs)
  \o kw_trailer \o <<NL>> \o SubSize(trailer, 0, n_entries)
  \o <<NL>> \o kw_startxref \o <<NL>> \o StrOf(XrefsStart(t)) \o <<NL>>

MakeXref(t) ==
  With(HfMatch(t), LAMBDA m :
  With(GetPartsErr(t, m), LAMBDA e :
  IF e # "none" THEN [err |-> e, text |-> t] ELSE
  With(Find(m.header, 0, kw_PDF), LAMBDA h_offset :
  IF h_offset = -1 THEN [err |-> "AttributeError", text |-> t] ELSE
  With(GetIobjs(t), LAMBDA iobjs :
  With(Trailer(t), LAMBDA tr :
    IF tr.err # "none" THEN [err |-> tr.err, text |-> t]
    ELSE [err |-> "none",
          text |-> m.header \o IobjTexts(t, iobjs)
                   \o NewXref(t, h_offset, iobjs, StrOf(1 + Len(iobjs)), tr.text)
                   \o m.eof])))))

\* p.sub(b'\n', text) with p = \n<num> \d+ obj.+?endobj\n+ (re.S), from
\* offset p on
\* end of the match of p tried at offset q, -1 when it does not match
RemoveEnd(t, q, num) ==
  IF ~Lit(t, q, <<NL>> \o num \o <<" ">>) THEN -1 ELSE
  With(q + 1 + Len(num) + 1, LAMBDA a :
  With(RunEnd(t, a, DigitSet), LAMBDA b :
  IF ~(b > a /\ Lit(t, b, kw_obj)) THEN -1 ELSE
  With(FindEndobj(t, b + 4 + 1), LAMBDA j :
    IF j # -1 THEN RunEnd(t, j + 6, NLSet) ELSE -1)))

RECURSIVE RemoveObj(_, _, _)
RemoveObj(t, p, num) ==
  With(First(p, Len(t) - 1, LAMBDA q : At(t, q) = NL /\ RemoveEnd(t, q, num) # -1),
       LAMBDA s :
    IF s = -1 THEN Slice(t, p, Len(t))
    ELSE Slice(t, p, s) \o <<NL>> \o RemoveObj(t, RemoveEnd(t, s, num), num))

\* m.group(1) < obj.num(): both are bytes objects
NumLess(a, b) == BytesLess(a, b)

\* update_refs(m) for group(1) = g1 and group(2) = g2
update_refs(g1, g2, num) ==
  IF NumLess(g1, num) THEN g1 \o g2
  ELSE IF g1 = num THEN <<>>
  ELSE StrOf(IntOf(g1) - 1) \o g2

\* end of (\d+)( \d+ (?:R|obj)) tried at p, -1 when it does not match
RefTokenEnd(t, p) ==
  With(RunEnd(t, p, DigitSet), LAMBDA a :
  With(RunEnd(t, a + 1, DigitSet), LAMBDA b :
    IF ~(a > p /\ Lit(t, a, <<" ">>) /\ b > a + 1) THEN -1
    ELSE IF Lit(t, b, kw_R) THEN b + 2
    ELSE IF Lit(t, b, kw_obj) THEN b + 4
    ELSE -1))

\* re.sub(b'(\d+)( \d+ (?:R|obj))', update_refs, text), from offset p on
RECURSIVE UpdateRefs(_, _, _)
UpdateRefs(t, p, num) ==
  With(First(p, Len(t) - 1, LAMBDA q : At(t, q) \in DigitSet /\ RefTokenEnd(t, q) # -1),
       LAMBDA s :
  IF s = -1 THEN Slice(t, p, Len(t)) ELSE
  With(RunEnd(t, s, DigitSet), LAMBDA a :
  With(RefTokenEnd(t, s), LAMBDA e :
    Slice(t, p, s) \o update_refs(Slice(t, s, a), Slice(t, a, e), num)
    \o UpdateRefs(t, e, num))))

\* reverse_sort_objs: sorted(zip([e.num for e in objs], objs), reverse=True)
\* sorts pairs whose first component is the bound method e.num, not its
\* value; comparing two of them raises TypeError, and a list of one element
\* or none is sorted without a comparison.  The objects are distinct.
reverse_sort_objs(objs) ==
  IF Len(objs) <= 1 THEN [err |-> "none", objs |-> objs]
  ELSE [err |-> "TypeError", objs |-> <<>>]

\* the loop of del_objs over the sorted objects: each is removed and the
\* references to the others are rewritten
RECURSIVE DelLoop(_, _)
DelLoop(t, objs) ==
  IF Len(objs) = 0 THEN t
  ELSE DelLoop(UpdateRefs(RemoveObj(t, 0, objs[1]), 0, objs[1]), Tail(objs))

\* some xref section of the text has a block with an item
HasXitem(t) ==
  With(XrefSections(t), LAMBDA secs :
    \E i \in 1..Len(secs) :
      With(XblockFinditer(secs[i], 0), LAMBDA bs :
        \E k \in 1..Len(bs) : Len(bs[k].items) > 0))

\* del_objs(objs): [err, text].  hasObjs tells whether the argument has the
\* objs() method line 154 calls (pdf_objs and its subclasses have none);
\* nums are the num() of its objects.  The scan of the xref items evaluates
\* block.start+i, a bound method plus an int, which raises TypeError at the
\* first item, so that lines 177 to 180 never run.
DelObjs(t, hasObjs, nums) ==
  IF ~hasObjs THEN [err |-> "AttributeError", text |-> t] ELSE
  With(reverse_sort_objs(nums), LAMBDA sorted :
  IF sorted.err # "none" THEN [err |-> sorted.err, text |-> t] ELSE
  With(DelLoop(t, sorted.objs), LAMBDA t1 :
    IF XrefsStart(t1) = -1 THEN [err |-> "AssertionError", text |-> t1]
    ELSE IF HasXitem(t1) THEN [err |-> "TypeError", text |-> t1]
    ELSE MakeXref(t1)))

\* ------------------------------------------------------ input documents
\* the object numbers the documents and the del_objs calls draw from
ObjNums == {1, 2, 3, 10}
RefStyles == {"ring", "all"}
OffsetStyles == {"position", "position_plus_header"}
\* "comment": ring references and a comment line between the first object and
\* the second; "filter": ring references and a filter name in the first
\* object; "operand": ring references and a colour operator with its operands
\* in the first object; "selfnum": no reference, the contents of every object
\* are its own number; "free": ring references and an xref table of one
\* block, with a free entry for every number no object carries; "gen": no
\* reference in the objects, and generation 1 in every opener, in every
\* in-use xref entry and in the /Root reference
DocStyles == RefStyles \cup {"comment", "filter", "operand", "selfnum", "free", "gen"}
GenOf(style) == IF style = "gen" THEN "1" ELSE "0"
kw_operand == <<"3", " ", "0", " ", "R", "G">>
kw_comment == <<"%", "c", NL>>
kw_FlateDecode == <<"F", "l", "a", "t", "e", "D", "e", "c", "o", "d", "e">>

RECURSIVE InjSeqs(_)
InjSeqs(n) ==
  IF n = 0 THEN {<<>>}
  ELSE {Append(q[1], q[2]) :
          q \in {r \in InjSeqs(n - 1) \X ObjNums :
                   \A i \in 1..Len(r[1]) : r[1][i] # r[2]}}

\* the object numbers of a document, in file order
NumSeqs == UNION {InjSeqs(n) : n \in 1..MaxObjs}

RECURSIVE SortNums(_)
SortNums(S) ==
  IF S = {} THEN <<>>
  ELSE LET m == CHOOSE x \in S : \A y \in S : x <= y
       IN <<m>> \o SortNums(S \ {m})

Range(s) == {s[i] : i \in 1..Len(s)}

RECURSIVE Newlines(_)
Newlines(k) == IF k <= 0 THEN <<>> ELSE <<NL>> \o Newlines(k - 1)

DocHeader(pad) == Newlines(pad) \o kw_PDF \o <<"-", "1", ".", "4", NL>>

RECURSIVE RefsText(_)
RefsText(dests) ==
  IF Len(dests) = 0 THEN <<>>
  ELSE StrOf(dests[1]) \o <<" ", "0">> \o kw_R
       \o (IF Len(dests) > 1 THEN <<" ">> ELSE <<>>) \o RefsText(Tail(dests))

\* object i refers to the next object of the file ("ring") or to all ("all")
Dests(nums, i, style) ==
  IF style = "all" THEN nums
  ELSE IF style = "gen" THEN <<>>
  ELSE <<nums[(i % Len(nums)) + 1]>>

ObjText(nums, i, style) ==
  StrOf(nums[i]) \o <<" ", GenOf(style)>> \o kw_obj \o <<NL>>
  \o (IF style = "selfnum" THEN StrOf(nums[i]) ELSE
        <<"[">>
        \o (IF style = "filter" /\ i = 1 THEN <<"/">> \o kw_FlateDecode \o <<" ">> ELSE <<>>)
        \o (IF style = "operand" /\ i = 1 THEN kw_operand \o <<" ">> ELSE <<>>)
        \o RefsText(Dests(nums, i, style)) \o <<"]">>)
  \o <<NL>> \o kw_endobj \o <<NL>>
  \o (IF style = "comment" /\ i = 1 /\ Len(nums) > 1 THEN kw_comment ELSE <<>>)

RECURSIVE ObjsText(_, _, _)
ObjsText(nums, i, style) ==
  IF i > Len(nums) THEN <<>>
  ELSE ObjText(nums, i, style) \o ObjsText(nums, i + 1, style)

\* length of the objects in front of object i
RECURSIVE ObjsLen(_, _, _)
ObjsLen(nums, i, style) ==
  IF i <= 1 THEN 0
  ELSE ObjsLen(nums, i - 1, style) + Len(ObjText(nums, i - 1, style))

Pad10(n) == Zeros(10 - Len(StrOf(n))) \o StrOf(n)

\* the xref entry of object number n; entry 0 holds the offset of %PDF
DocXitem(pad, nums, style, shift, n) ==
  IF n = 0 THEN Pad10(pad) \o <<" ", "6", "5", "5", "3", "5", " ", "f", " ", NL>>
  ELSE IF n \notin Range(nums)
    THEN Pad10(0) \o <<" ", "0", "0", "0", "0", "1", " ", "f", " ", NL>>
  ELSE LET i == CHOOSE k \in 1..Len(nums) : nums[k] = n
       IN Pad10(Len(DocHeader(pad)) + ObjsLen(nums, i, style) + shift)
          \o <<" ", "0", "0", "0", "0", GenOf(style), " ", "n", " ", NL>>

\* length of the run of consecutive numbers of L that starts at index i
RECURSIVE RunLen(_, _)
RunLen(L, i) ==
  IF i < Len(L) /\ L[i + 1] = L[i] + 1 THEN 1 + RunLen(L, i + 1) ELSE 1

RECURSIVE DocXitems(_, _, _, _, _, _, _)
DocXitems(pad, nums, style, shift, L, i, c) ==
  IF c = 0 THEN <<>>
  ELSE DocXitem(pad, nums, style, shift, L[i])
       \o DocXitems(pad, nums, style, shift, L, i + 1, c - 1)

\* one xref block for each run of consecutive object numbers of L
RECURSIVE DocXblocks(_, _, _, _, _, _)
DocXblocks(pad, nums, style, shift, L, i) ==
  IF i > Len(L) THEN <<>>
  ELSE StrOf(L[i]) \o <<" ">> \o StrOf(RunLen(L, i)) \o <<" ", NL>>
       \o DocXitems(pad, nums, style, shift, L, i, RunLen(L, i))
       \o DocXblocks(pad, nums, style, shift, L, i + RunLen(L, i))

\* a document: header, objects, xref table with one entry for each object
\* number in numerical order, trailer, startxref, %%EOF
Doc(pad, nums, style, offsets) ==
  LET body == DocHeader(pad) \o ObjsText(nums, 1, style)
      top == SortNums(Range(nums))[Len(nums)]
      L == IF style = "free" THEN [n \in 1..(top + 1) |-> n - 1]
           ELSE <<0>> \o SortNums(Range(nums))
      shift == IF offsets = "position" THEN 0 ELSE Len(DocHeader(pad))
  IN body \o kw_xref \o <<NL>> \o DocXblocks(pad, nums, style, shift, L, 1)
     \o kw_trailer \o <<NL>> \o kw_dopen \o <<" ">> \o kw_Size
     \o StrOf(L[Len(L)] + 1)
     \o <<" ", "/", "R", "o", "o", "t", " ">> \o StrOf(nums[1]) \o <<" ", GenOf(style)>> \o kw_R
     \o <<" ">> \o kw_dclose \o <<NL>> \o kw_startxref \o <<NL>> \o StrOf(Len(body))
     \o <<NL>> \o kw_EOF \o <<NL>>

\* the collections a del_objs call is handed: the num() of their objects
TargetSeqs ==
  {[i \in 1..Cardinality(S) |-> StrOf(SortNums(S)[i])] :
     S \in {T \in SUBSET ObjNums : Cardinality(T) <= MaxTargets}}

\* ---------------------------------------------------------- state machine
VARIABLES
  text,   \* pdf_redactor.text
  prev,   \* the text before the last call
  op,     \* the last call and its argument
  err,    \* the exception the last call raised, "none" when it returned
  ret,    \* what check_xref returned
  hist,   \* the names of the calls made so far
  heap,   \* the bytes objects created so far: heap[1] is the one the caller
          \* handed to pdf_redactor
  ref     \* the object of heap that self.text is bound to

vars == <<text, prev, op, err, ret, hist, heap, ref>>

\* self.text = b for the result b of re.sub or b''.join: bytes objects are
\* immutable, the name is bound to the object of the result
BindInPlace(h, b) == [h EXCEPT ![Len(h)] = b]
Bind(h, b) == Append(h, b)

Init ==
  /\ \E pad \in 0..MaxPad, nums \in NumSeqs, style \in DocStyles, offsets \in OffsetStyles :
       /\ style \in RefStyles \cup {"free"} \/ (pad = 0 /\ offsets = "position")
       /\ text = Doc(pad, nums, style, offsets)
  /\ prev = text
  /\ op = [name |-> "init", hasObjs |-> FALSE, nums |-> <<>>]
  /\ err = "none"
  /\ ret = "None"
  /\ hist = <<>>
  /\ heap = <<text>>
  /\ ref = 1

\* a run ends at the first exception; it makes MaxSteps calls at most
CanCall == err = "none" /\ Len(hist) < MaxSteps

del_objs ==
  /\ CanCall
  /\ \E hasObjs \in BOOLEAN, nums \in TargetSeqs :
       \E r \in {DelObjs(text, hasObjs, nums)} :
          /\ text' = r.text
          /\ err' = r.err
          /\ op' = [name |-> "del_objs", hasObjs |-> hasObjs, nums |-> nums]
          /\ heap' = IF r.text = text THEN heap ELSE Bind(heap, r.text)
          /\ ref' = Len(heap')
  /\ prev' = text
  /\ ret' = "None"
  /\ hist' = Append(hist, "del_objs")

make_xref ==
  /\ CanCall
  /\ \E r \in {MakeXref(text)} :
       /\ text' = r.text
       /\ err' = r.err
       /\ heap' = IF r.err = "none" THEN Bind(heap, r.text) ELSE heap
       /\ ref' = Len(heap')
  /\ op' = [name |-> "make_xref", hasObjs |-> FALSE, nums |-> <<>>]
  /\ prev' = text
  /\ ret' = "None"
  /\ hist' = Append(hist, "make_xref")

check_xref ==
  /\ CanCall
  /\ \E r \in {CheckXref(text)} : ret' = r.ret /\ err' = r.err
  /\ op' = [name |-> "check_xref", hasObjs |-> FALSE, nums |-> <<>>]
  /\ prev' = text
  /\ text' = text
  /\ hist' = Append(hist, "check_xref")
  /\ UNCHANGED <<heap, ref>>

Next == del_objs \/ make_xref \/ check_xref

Spec == Init /\ [][Next]_vars

\* ------------------------------------------------- vocabulary of the claims
\* the object numbers of the 'N G obj' openers of t, in file order
OpenerNums(t) ==
  LET iobjs == GetIobjs(t)
  IN [i \in 1..Len(iobjs) |-> IntOf(iobjs[i].num)]

\* an indirect object of t carries the number num (a bytes object)
Present(t, num) ==
  LET iobjs == GetIobjs(t)
  IN \E i \in 1..Len(iobjs) : iobjs[i].num = num

\* the byte position in t of the header marker and of every opener
TrueOffsets(t) ==
  LET iobjs == GetIobjs(t)
  IN <<(<<0, Find(t, 0, kw_PDF)>>)>>
     \o [i \in 1..Len(iobjs) |-> <<IntOf(iobjs[i].num), iobjs[i].start>>]

\* t parses and its xref table holds the byte position of each object
WellFormed(t) == GetPartsErr(t, HfMatch(t)) = "none" /\ XOffsets(t) = TrueOffsets(t)

\* the tokens 'M G R' and 'M G obj' of t, in file order
RECURSIVE Tokens(_, _)
Tokens(t, p) ==
  LET s == First(p, Len(t) - 1, LAMBDA q : At(t, q) \in DigitSet /\ RefTokenEnd(t, q) # -1)
      a == RunEnd(t, s, DigitSet)
      e == RefTokenEnd(t, s)
  IN IF s = -1 THEN <<>>
     ELSE <<[num |-> Slice(t, s, a), rest |-> Slice(t, a, e)]>> \o Tokens(t, e)

IsRef(k) == k.rest[Len(k.rest)] = "R"

\* the last call was del_objs on a collection that has objs(), with n targets
Deleted(n) == op.name = "del_objs" /\ op.hasObjs /\ Len(op.nums) = n

\* the number an object numbered n carries once the objects numbered in T
\* are gone
Renumbered(n, T) == n - Cardinality({x \in T : x < n})

TargetInts == {IntOf(op.nums[i]) : i \in 1..Len(op.nums)}

\* the openers the survivors of prev carry after the targets are deleted
SurvivorNums ==
  LET old == SelectSeq(OpenerNums(prev), LAMBDA n : n \notin TargetInts)
  IN [i \in 1..Len(old) |-> Renumbered(old[i], TargetInts)]

\* ------------------------------------------------------------------ claims
\* C1: for every well-formed document and every object number N of an
\* indirect object present in it, check_xref returns true on the document
\* del_objs leaves after deleting object N.
C1_DeleteThenCheck ==
  (Deleted(1) /\ WellFormed(prev) /\ Present(prev, op.nums[1]))
    => CheckXref(text).ret = "True"

\* C2: when del_objs deletes object N, every remaining token 'M G R' or
\* 'M G obj' is rewritten by the integer comparison of M with N: unchanged
\* for M < N, number M-1 for M > N, gone for M = N.
C2_IntegerRewrite ==
  (Deleted(1) /\ Present(prev, op.nums[1])) =>
    LET N == IntOf(op.nums[1])
        old == SelectSeq(Tokens(RemoveObj(prev, 0, op.nums[1]), 0),
                         LAMBDA k : IntOf(k.num) # N)
    IN Tokens(text, 0) =
         [i \in 1..Len(old) |->
            IF IntOf(old[i].num) < N THEN old[i]
            ELSE [num |-> StrOf(IntOf(old[i].num) - 1), rest |-> old[i].rest]]

\* C3: make_xref(repair=True) is idempotent: after a first application that
\* succeeded, a second one succeeds and leaves the bytes as they were.
C3_MakeXrefIdempotent ==
  (Len(hist) >= 2 /\ hist[Len(hist)] = "make_xref" /\ hist[Len(hist) - 1] = "make_xref")
    => (err = "none" /\ text = prev)

\* the entries of the table that follows the first "xref" line and its block
\* header, read line by line from offset p up to the trailer keyword
RECURSIVE WrittenEntries(_, _)
WrittenEntries(t, p) ==
  LET e == Find(t, p, <<NL>>)
      a == RunEnd(t, p, DigitSet)
  IN IF p >= Len(t) \/ e = -1 \/ a = p THEN <<>>
     ELSE <<[offset |-> IntOf(Slice(t, p, a)), state |-> At(t, e - 2)]>>
          \o WrittenEntries(t, e + 1)

\* the entries of the xref table of t; entry n is at index n + 1
WrittenTable(t) == WrittenEntries(t, Find(t, XrefsStart(t) + 5, <<NL>>) + 1)

\* the /Size of the trailer of t
WrittenSize(t) ==
  LET s == Find(t, 0, kw_Size)
  IN IntOf(Slice(t, s + 6, RunEnd(t, s + 6, DigitSet)))

\* C4: after make_xref(repair=True) the rebuilt table holds exactly one entry
\* for each object number n in [1, Size), and the offset of each in-use entry
\* is the byte position, in the rebuilt document, of the opener of object n.
C4_EntryPerObject ==
  (op.name = "make_xref" /\ err = "none") =>
    LET es == WrittenTable(text)
        iobjs == GetIobjs(text)
    IN /\ Len(es) = WrittenSize(text)
       /\ \A n \in 1..(Len(es) - 1) :
            es[n + 1].state = "n" =>
              \E i \in 1..Len(iobjs) :
                IntOf(iobjs[i].num) = n /\ iobjs[i].start = es[n + 1].offset

\* C5: check_xref returns true exactly when the entries of the xref table,
\* taken object by object, hold the byte position of the %PDF marker (entry 0)
\* and of the opener of each indirect object (entry N).
C5_CheckXrefExact ==
  (op.name = "check_xref" /\ err = "none") =>
    ((ret = "True") <=> (XOffsets(text) = TrueOffsets(text)))

\* C6: after del_objs deletes a non-empty set of existing objects from a
\* document numbered 1..k without gaps, the openers of the survivors carry
\* 1..(k - number deleted), each once, in the file order they had.
C6_ContiguousAfterDelete ==
  (/\ op.name = "del_objs" /\ op.hasObjs /\ Len(op.nums) >= 1
   /\ Range(OpenerNums(prev)) = 1..Len(OpenerNums(prev))
   /\ \A i \in 1..Len(op.nums) : Present(prev, op.nums[i]))
    => /\ OpenerNums(text) = SurvivorNums
       /\ Range(OpenerNums(text)) = 1..(Len(OpenerNums(prev)) - Len(op.nums))

\* the entries of the xref table of t as its reader sees them: the object
\* number and the n / f flag of every item
XStates(t) ==
  LET secs == XrefSections(t)
  IN UNION {UNION {{<<b.first + (i - 1), b.items[i].state>> : i \in 1..Len(b.items)} :
                     b \in Range(XblockFinditer(secs[k], 0))} :
              k \in 1..Len(secs)}

\* C7: after del_objs on a document in which every reference pointed to an
\* existing object, every reference token 'M G R' that remains has a
\* destination M that is 0 or the number of a surviving indirect object with
\* an in-use xref entry, and it designates the object it designated before.
C7_ReferencesResolve ==
  (Deleted(1) /\ Present(prev, op.nums[1])) =>
    LET t0 == RemoveObj(prev, 0, op.nums[1])
        was == OpenerNums(t0)
        now == OpenerNums(text)
        old == SelectSeq(Tokens(t0, 0), LAMBDA k : IsRef(k) /\ k.num # op.nums[1])
        new == SelectSeq(Tokens(text, 0), IsRef)
    IN (\A i \in 1..Len(old) : IntOf(old[i].num) \in Range(OpenerNums(prev))) =>
         /\ Len(new) = Len(old)
         /\ Len(now) = Len(was)
         /\ \A i \in 1..Len(new) :
              \/ IntOf(new[i].num) = 0
              \/ /\ <<IntOf(new[i].num), "n">> \in XStates(text)
                 /\ \E j \in 1..Len(now) :
                      /\ now[j] = IntOf(new[i].num)
                      /\ was[j] = IntOf(old[i].num)
                      /\ \A k \in 1..Len(now) : now[k] = now[j] => k = j

\* C8: del_objs processes its targets in descending order of object number
\* compared as integers: for two targets a < b, b is removed and the
\* references renumbered before a is touched, so that the objects removed
\* are exactly those that carried the target numbers in the original document.
C8_DescendingOrder ==
  (Deleted(2) /\ \A i \in 1..2 : Present(prev, op.nums[i])) =>
    /\ Len(GetIobjs(text)) = Len(GetIobjs(prev)) - 2
    /\ OpenerNums(text) = SurvivorNums

\* C9: round trip: for a well-formed document with a correct xref table,
\* make_xref(repair=True) with nothing deleted re-emits the header, the
\* indirect objects, the xref section and the EOF marker byte for byte.
C9_RoundTrip ==
  (op.name = "make_xref" /\ err = "none" /\ WellFormed(prev)) => text = prev

\* C10: del_objs with a target that matches no indirect object, or with no
\* target, is a no-op on the structure: header and indirect objects are byte
\* identical, no reference is renumbered or removed, and check_xref on the
\* result returns true.
C10_DeleteNothing ==
  (/\ op.name = "del_objs" /\ op.hasObjs
   /\ WellFormed(prev)
   /\ \A i \in 1..Len(op.nums) : ~Present(prev, op.nums[i]))
    => /\ HfMatch(text).header = HfMatch(prev).header
       /\ IobjTexts(text, GetIobjs(text)) = IobjTexts(prev, GetIobjs(prev))
       /\ Tokens(text, 0) = Tokens(prev, 0)
       /\ CheckXref(text).ret = "True"

\* the lines of t from offset p up to the trailer keyword, each with its
\* newline
RECURSIVE EntryLines(_, _)
EntryLines(t, p) ==
  LET e == Find(t, p, <<NL>>)
  IN IF p >= Len(t) \/ e = -1 \/ Lit(t, p, kw_trailer) THEN <<>>
     ELSE <<Slice(t, p, e + 1)>> \o EntryLines(t, e + 1)

\* offset of the line that follows the line of the table keyword of t
TableHeaderAt(t) == Find(t, Find(t, 0, <<NL>> \o kw_xref \o <<NL>>) + 1, <<NL>>) + 1

\* the entry lines of the xref table of t: those after its block header
WrittenLines(t) == EntryLines(t, Find(t, TableHeaderAt(t), <<NL>>) + 1)

\* C11: every xref entry make_xref emits, the entry of object 0 included, is
\* exactly 20 bytes: ten digits, a space, five digits, a space, n or f, a
\* space and a newline.
C11_EntryWidth ==
  (op.name = "make_xref" /\ err = "none") =>
    \A i \in 1..Len(WrittenLines(text)) :
      Len(WrittenLines(text)[i]) = 20 /\ XitemAt(WrittenLines(text)[i], 0)

\* the decimal number on the line after the last startxref keyword of t
StartxrefValue(t) ==
  LET s == FindLast(t, Len(t) - 10, kw_startxref \o <<NL>>)
  IN IntOf(Slice(t, s + 10, RunEnd(t, s + 10, DigitSet)))

\* C12: after make_xref(repair=True) the number written after startxref is
\* the byte offset, in the regenerated document, of the xref keyword of the
\* regenerated table.
C12_StartxrefOffset ==
  (op.name = "make_xref" /\ err = "none") =>
    StartxrefValue(text) = Find(text, 0, <<NL>> \o kw_xref \o <<NL>>) + 1

\* the count of the block header of the xref table of t
WrittenCount(t) ==
  LET p == TableHeaderAt(t)
      a == RunEnd(t, p, DigitSet)
  IN IntOf(Slice(t, a + 1, RunEnd(t, a + 1, DigitSet)))

\* C13: after make_xref the /Size of the emitted trailer is the new object
\* count: Size - 1 is the number of indirect objects, every object number
\* lies in [1, Size), and the count of the block header equals Size.
C13_SizeIsCount ==
  (op.name = "make_xref" /\ err = "none") =>
    /\ WrittenSize(text) - 1 = Len(GetIobjs(text))
    /\ Range(OpenerNums(text)) \subseteq 1..(WrittenSize(text) - 1)
    /\ WrittenCount(text) = WrittenSize(text)

C15_NoPartialEdit ==
  (op.name = "del_objs") =>
    /\ err # "none" => text = prev
    /\ text # prev => CheckXref(text).ret = "True"

\* the object number of the /Root reference of the trailer of t
RootNum(t) ==
  LET s == Find(t, 0, <<"/", "R", "o", "o", "t", " ">>)
  IN Slice(t, s + 6, RunEnd(t, s + 6, DigitSet))

\* C16: when the object the /Root of the trailer refers to is among those
\* deleted, or the document still fails check_xref after the deletion,
\* del_objs reports a BrokenDocument error instead of leaving the
\* inconsistent document.
C16_BrokenDocument ==
  (/\ Deleted(1)
   /\ \/ op.nums[1] = RootNum(prev) /\ Present(prev, op.nums[1])
      \/ CheckXref(text).ret # "True")
    => err = "BrokenDocument"

\* the reference tokens of the object of t numbered num
RefsOf(t, num) ==
  LET iobjs == GetIobjs(t)
      i == CHOOSE k \in 1..Len(iobjs) : iobjs[k].num = num
  IN SelectSeq(Tokens(Slice(t, iobjs[i].cs, iobjs[i].ce), 0), IsRef)

\* C17: in a document with objects 1, 2, 3 where object 2 is referenced once
\* by object 3 and once by the /Root of the trailer, del_objs of object 2
\* completes without aborting, object 3 keeps no reference to the deleted
\* number, the survivors are numbered 1 and 2 (old 3 becomes 2), and
\* check_xref on the rebuilt document returns true.
C17_DanglingRoot ==
  (/\ Deleted(1) /\ op.nums[1] = <<"2">>
   /\ Range(OpenerNums(prev)) = {1, 2, 3}
   /\ RootNum(prev) = <<"2">>
   /\ Len(SelectSeq(Tokens(prev, 0), LAMBDA k : IsRef(k) /\ k.num = <<"2">>)) = 2
   /\ \E i \in 1..Len(RefsOf(prev, <<"3">>)) : RefsOf(prev, <<"3">>)[i].num = <<"2">>)
    => /\ err = "none"
       /\ Range(OpenerNums(text)) = {1, 2}
       /\ Len(OpenerNums(text)) = 2
       /\ RefsOf(text, <<"2">>) = <<>>
       /\ CheckXref(text).ret = "True"

\* ------------------------------------------------ the filter check (C18)
\* the standard filter names assert_uncompressed_pdf searches for
filters ==
  <<kw_FlateDecode,
    <<"A", "S", "C", "I", "I", "H", "e", "x", "D", "e", "c", "o", "d", "e">>,
    <<"A", "S", "C", "I", "I", "8", "5", "D", "e", "c", "o", "d", "e">>,
    <<"L", "Z", "W", "D", "e", "c", "o", "d", "e">>,
    <<"R", "u", "n", "L", "e", "n", "g", "t", "h", "D", "e", "c", "o", "d", "e">>,
    <<"C", "C", "I", "T", "T", "F", "a", "x", "D", "e", "c", "o", "d", "e">>,
    <<"J", "B", "I", "G", "2", "D", "e", "c", "o", "d", "e">>,
    <<"D", "C", "T", "D", "e", "c", "o", "d", "e">>,
    <<"J", "P", "X", "D", "e", "c", "o", "d", "e">>,
    <<"C", "r", "y", "p", "t">>>>

\* the lines a file object iterates over: each ends after its newline
RECURSIVE Lines(_, _)
Lines(t, p) ==
  IF p >= Len(t) THEN <<>>
  ELSE With(Find(t, p, <<NL>>), LAMBDA q :
         IF q = -1 THEN <<Slice(t, p, Len(t))>>
         ELSE <<Slice(t, p, q + 1)>> \o Lines(t, q + 1))

\* the exception assert_uncompressed_pdf raises on one line, "none" when
\* it returns
assert_uncompressed_pdf(pdf_line) ==
  IF \E i \in 1..Len(filters) : Find(pdf_line, 0, filters[i]) # -1
  THEN "AssertionError" ELSE "none"

\* the exception assert_conditions_pdf raises on a file, "none" when it
\* returns; no constructor or method of pdf_redactor calls it
assert_conditions_pdf(t) ==
  IF \E i \in 1..Len(Lines(t, 0)) : assert_uncompressed_pdf(Lines(t, 0)[i]) # "none"
  THEN "AssertionError" ELSE "none"

\* C18: an input that contains one of the standard filter names is refused
\* with a fatal error before it is parsed: the redactor built on it is in
\* error and no call has been made on it.
C18_FilterRefused ==
  assert_conditions_pdf(heap[1]) = "AssertionError"
    => err = "AssertionError" /\ hist = <<>>

\* --------------------------------- parser.py, dobjects.py: find and parse
\* the names bound in the namespace of parser.py: `import re`,
\* `from .patterns import *` and the classes the module defines; the classes
\* of dobjects.py are not among them
ParserGlobals ==
  {"re", "C", "P", "PDF_STR_ENCODINGS", "my_match", "pdf_obj", "pdf_objs", "pdf_match"}

\* pattern.finditer(v) for the pattern re.escape(w) of a literal w, from
\* offset p on: the starts of the non-overlapping occurrences
RECURSIVE LitFinditer(_, _, _)
LitFinditer(v, p, w) ==
  With(Find(v, p, w), LAMBDA q :
    IF q = -1 THEN <<>>
    ELSE <<q>> \o LitFinditer(v, q + Max2(Len(w), 1), w))

\* the last loop of find: for every span x of sorted(d_spans), every match
\* of the text of x in self.text, as my_match with offset self.match.start()
RECURSIVE FindYields(_, _, _, _)
FindYields(v, start, xs, i) ==
  IF i > Len(xs) THEN <<>>
  ELSE With(LitFinditer(v, 0, Slice(v, xs[i][1], xs[i][2])), LAMBDA qs :
         [k \in 1..Len(qs) |->
            <<qs[k] + start, qs[k] + start + xs[i][2] - xs[i][1]>>])
       \o FindYields(v, start, xs, i + 1)

\* pdf_match.find(option) on text v of a match that starts at start: the
\* spans of the matches it yields, or the exception it raises
FindYield(v, start, option) ==
  With(FindSpans(v, option), LAMBDA f :
    IF f.err # "none" THEN [err |-> f.err, ys |-> <<>>]
    ELSE [err |-> "none", ys |-> FindYields(v, start, f.d_spans, 1)])

kw_stream == <<"s", "t", "r", "e", "a", "m">>
kw_endstream == <<"e", "n", "d">> \o kw_stream
kw_true == <<"t", "r", "u", "e">>
kw_false == <<"f", "a", "l", "s", "e">>
kw_null == <<"n", "u", "l", "l">>

\* the bytes outside C['name']
NameExcl == WsSet \cup {"/", "%", "<", ">", "[", "]", "{", "}", "(", ")"}

\* end of P['stream'] tried at q, -1 when it does not match
StreamEnd(v, q) ==
  IF ~Lit(v, q, kw_stream) THEN -1
  ELSE With(First(q + 7, Len(v) - 10,
                  LAMBDA r : Lit(v, r, kw_endstream) /\ At(v, r + 9) \in WsSet),
            LAMBDA r : IF r = -1 THEN -1 ELSE RunEnd(v, r + 9, WsSet))

\* end of P['name'] tried at q, -1 when it does not match
NameEnd(v, q) ==
  IF ~Lit(v, q, <<"/">>) THEN -1
  ELSE With(First(q + 1, Len(v), LAMBDA r : r = Len(v) \/ At(v, r) \in NameExcl),
            LAMBDA e : IF e > q + 1 THEN e ELSE -1)

\* end of P['ref'] tried at q, -1 when it does not match
RefEnd(v, q) ==
  With(RunEnd(v, q, DigitSet), LAMBDA a :
  With(RunEnd(v, a + 1, DigitSet), LAMBDA b :
    IF a > q /\ Lit(v, a, <<" ">>) /\ b > a + 1 /\ Lit(v, b, kw_R)
    THEN RunEnd(v, b + 2, WsSet) ELSE -1))

\* end of P['bool'] tried at q: true, or false and the white space after it
BoolEnd(v, q) ==
  IF Lit(v, q, kw_true) THEN q + 4
  ELSE IF Lit(v, q, kw_false) THEN RunEnd(v, q + 5, WsSet)
  ELSE -1

\* end of P['null'] tried at q, -1 when it does not match
NullEnd(v, q) == IF Lit(v, q, kw_null) THEN RunEnd(v, q + 4, WsSet) ELSE -1

\* end of P['numeric'] = [+-]?\d*\.?\d+ tried at q, -1 when it does not
\* match
NumericEnd(v, q) ==
  With(IF Lit(v, q, <<"+">>) \/ Lit(v, q, <<"-">>) THEN q + 1 ELSE q, LAMBDA s :
  With(RunEnd(v, s, DigitSet), LAMBDA d :
    IF Lit(v, d, <<".">>) /\ RunEnd(v, d + 1, DigitSet) > d + 1
      THEN RunEnd(v, d + 1, DigitSet)
    ELSE IF d > s THEN d
    ELSE -1))

PatEnd(v, q, kind) ==
  CASE kind = "stream" -> StreamEnd(v, q)
    [] kind = "name" -> NameEnd(v, q)
    [] kind = "ref" -> RefEnd(v, q)
    [] kind = "bool" -> BoolEnd(v, q)
    [] kind = "numeric" -> NumericEnd(v, q)
    [] kind = "null" -> NullEnd(v, q)

\* pdf_match.finditer(P[kind]) on text v of a match that starts at start,
\* from offset p on: the spans of the matches
RECURSIVE PatFinditer(_, _, _, _)
PatFinditer(v, start, p, kind) ==
  With(First(p, Len(v) - 1, LAMBDA q : PatEnd(v, q, kind) # -1), LAMBDA s :
    IF s = -1 THEN <<>>
    ELSE With(PatEnd(v, s, kind), LAMBDA e :
           <<<<s + start, e + start>>>> \o PatFinditer(v, start, e, kind)))

\* the generators of parse in the order of its list, from generic to
\* specific, and the class each one constructs
ParseKinds == <<"dicts", "arrays", "stream", "name", "ref", "bool", "numeric", "null">>
ParseClasses ==
  <<"pdf_dict", "pdf_array", "pdf_stream", "pdf_name", "pdf_ref", "pdf_bool",
    "pdf_numeric", "pdf_null">>

\* the matches generator g of parse runs over, or the exception its
\* iterator raises
ParseGen(v, start, g) ==
  IF g <= 2 THEN FindYield(v, start, ParseKinds[g])
  ELSE [err |-> "none", ys |-> PatFinditer(v, start, 0, ParseKinds[g])]

in_span(x, y) ==
  \E i \in 1..Len(y) : y[i].span[1] <= x[1] /\ x[1] <= x[2] /\ x[2] <= y[i].span[2]

\* the inner loop of parse over the matches ys of one generator: cls(x,
\* origin=self) looks the class up in the namespace of parser.py
RECURSIVE ParseItems(_, _, _, _, _, _)
ParseItems(v, start, ys, cls, k, els) ==
  IF k > Len(ys) THEN [err |-> "none", els |-> els]
  ELSE IF cls \notin ParserGlobals THEN [err |-> "NameError", els |-> els]
  ELSE IF in_span(ys[k], els) THEN ParseItems(v, start, ys, cls, k + 1, els)
  ELSE ParseItems(v, start, ys, cls, k + 1,
         Append(els, [cls |-> cls, span |-> ys[k],
                      text |-> Slice(v, ys[k][1] - start, ys[k][2] - start)]))

\* the outer loop of parse from generator g on
RECURSIVE ParseLoop(_, _, _, _)
ParseLoop(v, start, g, els) ==
  IF g > Len(ParseKinds) THEN [err |-> "none", els |-> els]
  ELSE With(ParseGen(v, start, g), LAMBDA gen :
         IF gen.err # "none" THEN [err |-> gen.err, els |-> els]
         ELSE With(ParseItems(v, start, gen.ys, ParseClasses[g], 1, els), LAMBDA r :
                IF r.err # "none" THEN r ELSE ParseLoop(v, start, g + 1, r.els)))

\* pdf_match.parse on text v of a match that starts at start
Parse(v, start) == ParseLoop(v, start, 1, <<>>)

\* sorted(zip([i.start() for i in items], items)): equal starts make sorted
\* compare the objects, which have no order
RECURSIVE SortEls(_)
SortEls(els) ==
  IF Len(els) <= 1 THEN els
  ELSE With(CHOOSE k \in 1..Len(els) :
              \A l \in 1..Len(els) : els[k].span[1] <= els[l].span[1],
            LAMBDA i : <<els[i]>>
              \o SortEls(SubSeq(els, 1, i - 1) \o SubSeq(els, i + 1, Len(els))))

\* pdf_dict.parse for the dictionary d: the (key, value) pairs, or the
\* exception it raises
DictParse(d) ==
  With(Slice(d.text, 2, Len(d.text) - 2), LAMBDA con :
  With(Parse(con, Find(d.text, 0, con) + d.span[1]), LAMBDA r :
    IF r.err # "none" THEN [err |-> r.err, items |-> <<>>]
    ELSE IF ~(Len(r.els) > 0 /\ Len(r.els) % 2 = 0)
      THEN [err |-> "AssertionError", items |-> <<>>]
    ELSE IF \E i, j \in 1..Len(r.els) : i # j /\ r.els[i].span[1] = r.els[j].span[1]
      THEN [err |-> "TypeError", items |-> <<>>]
    ELSE With(SortEls(r.els), LAMBDA items :
      IF \E i \in 1..(Len(items) \div 2) : items[2 * i - 1].cls # "pdf_name"
        THEN [err |-> "AssertionError", items |-> <<>>]
      ELSE [err |-> "none",
            items |-> [i \in 1..(Len(items) \div 2) |->
                         <<items[2 * i - 1], items[2 * i]>>]])))

\* the parameters of pdf_array.parse as it is defined: `def parse():`
ArrayParseParams == <<>>

\* pdf_array.parse called on the array a: the call hands the instance to a
\* function that takes no parameter
ArrayParse(a) ==
  IF Len(ArrayParseParams) # 1 THEN [err |-> "TypeError", els |-> <<>>]
  ELSE With(FindYield(a.text, a.span[1], "arrays"), LAMBDA f :
    IF f.err # "none" THEN [err |-> f.err, els |-> <<>>]
    ELSE IF f.ys = <<>> THEN [err |-> "StopIteration", els |-> <<>>]
    ELSE With(Slice(a.text, f.ys[1][1] - a.span[1] + 1, f.ys[1][2] - a.span[1] - 1),
              LAMBDA con : Parse(con, Find(a.text, 0, con) + a.span[1])))

\* ------------------------------------------------ the parser on a body
MaxToks == 5        \* tokens in the body handed to the parser

\* the tokens bodies are made of
BodyTokens == {kw_dopen, kw_dclose, <<"[">>, <<"]">>, <<"/", "K">>, <<"1">>}
ValueTokens == {<<"/", "K">>, <<"1">>}

TokSeqs(T, n) == UNION {[1..k -> T] : k \in 0..n}

RECURSIVE Flatten(_)
Flatten(ts) == IF ts = <<>> THEN <<>> ELSE ts[1] \o Flatten(Tail(ts))

\* a dictionary whose value is an array that holds a dictionary of x
Nested(x) ==
  kw_dopen \o <<"/", "K", "[">> \o kw_dopen \o x \o kw_dclose \o <<"]">> \o kw_dclose

NestedBodies == {Nested(Flatten(ts)) : ts \in TokSeqs(ValueTokens, 2)}

Bodies == {Flatten(ts) : ts \in TokSeqs(BodyTokens, MaxToks)} \cup NestedBodies

\* the object pdf_dict(x, origin) or pdf_array(x, origin) holds for the
\* match of span x in the text v
MatchObj(cls, v, x) == [cls |-> cls, span |-> x, text |-> Slice(v, x[1], x[2])]

\* text is the text of a pdf_match that spans a whole body; ret is what the
\* last call returned
ParserInit ==
  /\ text \in Bodies
  /\ prev = text
  /\ op = [name |-> "init", option |-> "none"]
  /\ err = "none"
  /\ ret = <<>>
  /\ hist = <<>>
  /\ heap = <<text>>
  /\ ref = 1

\* list(self.find(option))
find ==
  /\ CanCall
  /\ \E option \in {"dicts", "arrays"} :
       \E r \in {FindYield(text, 0, option)} :
          /\ ret' = r.ys
          /\ err' = r.err
          /\ op' = [name |-> "find", option |-> option]
  /\ hist' = Append(hist, "find")
  /\ UNCHANGED <<text, prev, heap, ref>>

\* self.parse().els
parse ==
  /\ CanCall
  /\ \E r \in {Parse(text, 0)} : ret' = r.els /\ err' = r.err
  /\ op' = [name |-> "parse", option |-> "none"]
  /\ hist' = Append(hist, "parse")
  /\ UNCHANGED <<text, prev, heap, ref>>

\* pdf_dict(next(self.find('dicts')), origin=self).parse(), as xrefs.py
\* builds the trailer dictionary
dict_parse ==
  /\ CanCall
  /\ op.name = "find" /\ op.option = "dicts" /\ ret # <<>>
  /\ \E r \in {DictParse(MatchObj("pdf_dict", text, ret[1]))} :
       ret' = r.items /\ err' = r.err
  /\ op' = [name |-> "dict_parse", option |-> "none"]
  /\ hist' = Append(hist, "dict_parse")
  /\ UNCHANGED <<text, prev, heap, ref>>

\* pdf_array(next(self.find('arrays')), origin=self).parse()
array_parse ==
  /\ CanCall
  /\ op.name = "find" /\ op.option = "arrays" /\ ret # <<>>
  /\ \E r \in {ArrayParse(MatchObj("pdf_array", text, ret[1]))} :
       ret' = r.els /\ err' = r.err
  /\ op' = [name |-> "array_parse", option |-> "none"]
  /\ hist' = Append(hist, "array_parse")
  /\ UNCHANGED <<text, prev, heap, ref>>

ParserNext == find \/ parse \/ dict_parse \/ array_parse

ParserSpec == ParserInit /\ [][ParserNext]_vars

\* ------------------------------------------------------ claims C19, C20
\* the elements of class cls among els
OfClass(els, cls) == SelectSeq(els, LAMBDA e : e.cls = cls)

\* the values of class cls among the (key, value) pairs items
ValuesOfClass(items, cls) == SelectSeq(items, LAMBDA kv : kv[2].cls = cls)

\* C19: parsing a body that is a dictionary holding an array that holds a
\* dictionary returns exactly one pdf_dict; parse() of that dictionary
\* returns exactly one pdf_array among its values; parse() of that array
\* returns exactly one pdf_dict.
C19_NestedParse ==
  (op.name = "parse" /\ text \in NestedBodies) =>
    /\ err = "none"
    /\ Len(OfClass(ret, "pdf_dict")) = 1
    /\ LET d == DictParse(OfClass(ret, "pdf_dict")[1])
       IN /\ d.err = "none"
          /\ Len(ValuesOfClass(d.items, "pdf_array")) = 1
          /\ LET a == ArrayParse(ValuesOfClass(d.items, "pdf_array")[1][2])
             IN a.err = "none" /\ Len(OfClass(a.els, "pdf_dict")) = 1

\* nesting depth after the first k delimiters of ds
Depth(ds, k) ==
  Cardinality({i \in 1..k : ds[i].open}) - Cardinality({i \in 1..k : ~ds[i].open})

\* the delimiter pairs of v at depth 0: an opener met at depth 0 and the
\* first closer after it that brings the depth back to 0
DepthZeroPairs(v, option) ==
  LET ds == Delims(v, 0, option)
      w == Len(DelimClose(option))
  IN {<<ds[p[1]].pos, ds[p[2]].pos + w>> :
        p \in {q \in (1..Len(ds)) \X (1..Len(ds)) :
                 /\ q[1] < q[2]
                 /\ ds[q[1]].open /\ Depth(ds, q[1] - 1) = 0
                 /\ ~ds[q[2]].open /\ Depth(ds, q[2]) = 0
                 /\ \A k \in q[1]..(q[2] - 1) : Depth(ds, k) > 0}}

\* C20: when find('dicts') or find('arrays') succeeds, the spans it yields
\* are exactly the delimiter pairs at depth 0, each of them once, and no
\* two of them overlap.
C20_DepthZeroSpans ==
  (op.name = "find" /\ err = "none") =>
    /\ Range(ret) = DepthZeroPairs(text, op.option)
    /\ \A i, j \in 1..Len(ret) :
         i # j => ret[i] # ret[j] /\ (ret[i][2] <= ret[j][1] \/ ret[j][2] <= ret[i][1])

\* ------------------------------------------------------ claims C21..C30
\* the generators of parse run without error and one of them has a match
HasCandidate(v) ==
  /\ \A g \in 1..Len(ParseKinds) : ParseGen(v, 0, g).err = "none"
  /\ \E g \in 1..Len(ParseKinds) : ParseGen(v, 0, g).ys # <<>>

\* the spans x and y share a byte
Intersect(x, y) == x[1] < y[2] /\ y[1] < x[2]

\* C21: parse on a body that has candidates returns elements whose spans are
\* pairwise disjoint: a candidate that intersects an accepted span, contained
\* in it or crossing it, is not among them.
C21_NonOverlapping ==
  (op.name = "parse" /\ HasCandidate(text)) =>
    /\ err = "none"
    /\ ret # <<>>
    /\ \A i, j \in 1..Len(ret) : i # j => ~Intersect(ret[i].span, ret[j].span)

\* the body v is one dictionary whose interior holds names and numbers only
PlainDict(v) ==
  /\ Len(v) >= 4 /\ Lit(v, 0, kw_dopen) /\ Lit(v, Len(v) - 2, kw_dclose)
  /\ \A q \in 2..(Len(v) - 3) : At(v, q) \in {"/", "K", "1"}

\* the children of that interior: one name for every '/', and one number in
\* front of them when the interior starts with a digit
NameCount(v) == Cardinality({q \in 2..(Len(v) - 3) : At(v, q) = "/"})
LeadingNumber(v) == Len(v) > 4 /\ At(v, 2) = "1"

\* C22: pdf_dict.parse returns the children of the interior paired in order
\* of position when their number is even, zero included, and every key
\* position holds a name; it fails otherwise.
C22_DictPairs ==
  (op.name = "dict_parse" /\ PlainDict(text)) =>
    IF ~LeadingNumber(text) /\ NameCount(text) % 2 = 0
    THEN /\ err = "none"
         /\ Len(ret) = NameCount(text) \div 2
         /\ \A i \in 1..Len(ret) :
              /\ ret[i][1].cls = "pdf_name"
              /\ ret[i][1].span[2] <= ret[i][2].span[1]
              /\ i > 1 => ret[i - 1][2].span[2] <= ret[i][1].span[1]
    ELSE err # "none"

\* pdf_iobj.refs: pdf_ref(x, origin=self) over P['ref'].finditer(self.text),
\* the raw matches in the text of the object: their spans
IobjRefs(t, iobj) == PatFinditer(Slice(t, iobj.start, iobj.end), 0, 0, "ref")

\* pdf_xblock.items: pdf_xitem(x, origin=self) over
\* P['xitem'].finditer(self.match.group(3)), the raw matches in the text of
\* the group: their spans
XblockItems(b) == [k \in 1..Len(b.items) |-> <<20 * (k - 1), 20 * k>>]

\* the text of the k-th reference of the indirect object iobj of t
RefText(t, iobj, k) ==
  LET v == Slice(t, iobj.start, iobj.end)
  IN Slice(v, IobjRefs(t, iobj)[k][1], IobjRefs(t, iobj)[k][2])

\* the text of the k-th item of the block b of the xref section text v
ItemText(v, b, k) ==
  LET g3 == b.end - 20 * Len(b.items)
  IN Slice(v, g3 + 20 * (k - 1), g3 + 20 * k)

\* C23: the span every reference of an indirect object and every item of an
\* xref block reports is a span of the document: the bytes of the document
\* at that span are the text the child matched.
C23_DocumentCoordinates ==
  /\ \A i \in 1..Len(GetIobjs(text)) :
       LET iobj == GetIobjs(text)[i]
       IN \A k \in 1..Len(IobjRefs(text, iobj)) :
            LET x == IobjRefs(text, iobj)[k]
            IN Slice(text, x[1], x[2]) = RefText(text, iobj, k)
  /\ \A i \in 1..Len(XrefSections(text)) :
       LET v == XrefSections(text)[i]
           bs == XblockFinditer(v, 0)
       IN \A j \in 1..Len(bs) : \A k \in 1..Len(bs[j].items) :
            LET x == XblockItems(bs[j])[k]
            IN Slice(text, x[1], x[2]) = ItemText(v, bs[j], k)

\* the start-delimiter and end-delimiter tokens of v: the matches of the two
\* patterns, each scanned on its own
StartTokens(v, option) == LitFinditer(v, 0, DelimOpen(option))
EndTokens(v, option) == LitFinditer(v, 0, DelimClose(option))

\* C24: find fails with the mismatched-delimiters assertion error whenever
\* the body holds different numbers of start and end delimiter tokens, and
\* it yields no span then.
C24_MismatchedDelimiters ==
  (op.name = "find"
   /\ Len(StartTokens(text, op.option)) # Len(EndTokens(text, op.option)))
    => err = "AssertionError" /\ ret = <<>>

C24_Witness ==
  /\ op.name = "find" /\ op.option = "dicts"
  /\ Len(StartTokens(text, "dicts")) = 2 /\ Len(EndTokens(text, "dicts")) = 1
  /\ err = "AssertionError" /\ ret = <<>>

\* C25: after make_xref the reader of the component accepts what was
\* written: get_xrefs finds exactly one xref section, its blocks enumerate
\* one entry for every indirect object and entry 0, and trailer() returns
\* the trailer dictionary.
C25_WrittenXrefReadable ==
  (op.name = "make_xref" /\ err = "none") =>
    /\ Len(XrefSections(text)) = 1
    /\ Len(XOffsets(text)) = 1 + Len(GetIobjs(text))
    /\ Trailer(text).err = "none"
    /\ Lit(Trailer(text).text, 0, kw_dopen)

\* C26: when find is given a body whose start and end delimiter tokens are
\* equal in number, the scan loop never pops the empty stack and its depth
\* counter never goes below zero, also when an end delimiter comes first:
\* find returns.
C26_ScanLoopSafe ==
  (op.name = "find"
   /\ Len(StartTokens(text, op.option)) = Len(EndTokens(text, op.option))) =>
    /\ err = "none"
    /\ \A k \in 0..Len(Delims(text, 0, op.option)) :
         Depth(Delims(text, 0, op.option), k) >= 0

\* C27: del_objs leaves the bytes of a surviving object alone unless they
\* are the number of a reference 'M G R' or of an opener 'M G obj': the
\* operands and operator '3 0 RG' of a surviving first object are in the
\* text after the deletion as they were before.
C27_OperandsUntouched ==
  (/\ op.name = "del_objs"
   /\ Find(prev, 0, kw_operand) # -1
   /\ OpenerNums(prev)[1] \notin TargetInts)
    => Find(text, 0, kw_operand) # -1

\* pdf_match(next(self.finditer(con)), self) for con = re.escape(w): where
\* the match handed to the classifier starts, for the text v of a match that
\* starts at start
InteriorStart(v, start, w) == Find(v, 0, w) + start

\* pdf_iobj.parse: where the contents handed to parse start
IobjInterior(t, iobj) ==
  InteriorStart(Slice(t, iobj.start, iobj.end), iobj.start, Slice(t, iobj.cs, iobj.ce))

\* C28: the interior pdf_iobj.parse hands to the classifier starts where the
\* contents group of the object starts, and the interior pdf_dict.parse hands
\* over starts two bytes into the dictionary, also when the bytes of the
\* interior occur earlier in the enclosing text.
C28_InteriorPosition ==
  /\ \A i \in 1..Len(GetIobjs(text)) :
       IobjInterior(text, GetIobjs(text)[i]) = GetIobjs(text)[i].cs
  /\ Trailer(text).err = "none" =>
       LET d == Trailer(text).text
       IN InteriorStart(d, 0, Slice(d, 2, Len(d) - 2)) = 2

\* the object numbers the xref blocks of t enumerate, entry by entry
XNums(t) == [i \in 1..Len(XOffsets(t)) |-> XOffsets(t)[i][1]]

Ascending(ns) == \A i \in 1..(Len(ns) - 1) : ns[i] < ns[i + 1]

EntryHas(l, tail) ==
  /\ Len(l) > Len(tail)
  /\ Slice(l, Len(l) - Len(tail), Len(l)) = tail
  /\ \A q \in 0..(Len(l) - Len(tail) - 1) : At(l, q) \in DigitSet

\* the first number of the block header of the xref table of t
WrittenFirst(t) == Slice(t, TableHeaderAt(t), RunEnd(t, TableHeaderAt(t), DigitSet))

\* an opener or an in-use xref entry of t carries a generation other than 0
HasGeneration(t) ==
  \/ \E i \in 1..Len(GetIobjs(t)) : GetIobjs(t)[i].gen # <<"0">>
  \/ \E i \in 1..Len(XrefSections(t)) :
       \E b \in Range(XblockFinditer(XrefSections(t)[i], 0)) :
         \E k \in 1..Len(b.items) : b.items[k].state = "n" /\ b.items[k].gen # 0

\* C30: make_xref writes one block that starts at object number 0: entry 0
\* with generation 65535 and flag f, then, for every indirect object in file
\* order, an entry with the start of the object, generation 00000 and flag n,
\* whatever generation the openers and the entries of the old table carry.
C30_GenerationsReset ==
  (op.name = "make_xref" /\ err = "none") =>
    /\ WrittenFirst(text) = <<"0">>
    /\ WrittenCount(text) = 1 + Len(GetIobjs(prev))
    /\ Len(WrittenLines(text)) = 1 + Len(GetIobjs(prev))
    /\ EntryHas(WrittenLines(text)[1], <<" ", "6", "5", "5", "3", "5", " ", "f", " ", NL>>)
    /\ \A i \in 1..Len(GetIobjs(prev)) :
         /\ EntryHas(WrittenLines(text)[i + 1],
                     <<" ", "0", "0", "0", "0", "0", " ", "n", " ", NL>>)
         /\ IntOf(Slice(WrittenLines(text)[i + 1], 0, 10)) = GetIobjs(prev)[i].start

C30_Witness ==
  /\ op.name = "make_xref" /\ err = "none"
  /\ HasGeneration(prev)
  /\ Len(GetIobjs(prev)) = 2
  /\ Len(WrittenLines(text)) = 3

====
